---- MODULE Spec2Model ----
(***************************************************************************)
(* A model of jettison (src/jettison/__init__.py): the struct-backed       *)
(* codecs, Field, Definition and Schema.                                   *)
(*                                                                         *)
(* Integers.  Python integers are unbounded and the 32 bit tags need       *)
(* values up to 2^32, which is more than a TLC integer holds.  An integer  *)
(* of the program is therefore a pair of limbs [hi, lo] that stands for    *)
(* hi * 65536 + lo with lo in 0..65535 (hi is negative for a negative      *)
(* number).  Offsets, lengths and sizes are such integers as well.         *)
(*                                                                         *)
(* Bytes.  A str/bytes object is a sequence of numbers in 0..255.          *)
(* Text.  A unicode string is a sequence of code points.                   *)
(* Floats.  The float tags are in the codec table (Field resolves them),   *)
(* but no float value is packed or unpacked by the model.                  *)
(***************************************************************************)
EXTENDS Integers, Sequences, FiniteSets, TLC

Limb == 256 * 256

Num(hi, lo) == [hi |-> hi, lo |-> lo]

\* The program integer n, for an n that TLC can hold.
N(n) == Num(n \div Limb, n % Limb)

NumAdd(a, b) ==
    Num(a.hi + b.hi + ((a.lo + b.lo) \div Limb), (a.lo + b.lo) % Limb)

\* a * k for a small non-negative k (an element size).
NumMul(a, k) == Num(a.hi * k + ((a.lo * k) \div Limb), (a.lo * k) % Limb)

NumLE(a, b) == a.hi < b.hi \/ (a.hi = b.hi /\ a.lo <= b.lo)

Ok(v) == [ok |-> TRUE, val |-> v]

Err(e) == [ok |-> FALSE, err |-> e]

RECURSIVE Reverse(_)
Reverse(s) == IF s = <<>> THEN <<>> ELSE Append(Reverse(Tail(s)), Head(s))

(***************************************************************************)
(* The struct module, as Codec, ArrayCodec and StringCodec use it: the     *)
(* standard sizes and byte orders of the '>' and '<' formats.              *)
(***************************************************************************)

IntFormats == {"b", "h", "i", "B", "H", "I"}

calcsize(format) ==
    CASE format \in {"?", "b", "B"} -> 1
      [] format \in {"h", "H"} -> 2
      [] format \in {"i", "I", "f"} -> 4
      [] format = "d" -> 8

\* The least and the greatest value of an integer format.
MinOf(format) ==
    CASE format = "b" -> Num(-1, Limb - 128)
      [] format = "h" -> Num(-1, Limb - 32768)
      [] format = "i" -> Num(-32768, 0)
      [] format \in {"B", "H", "I"} -> Num(0, 0)

MaxOf(format) ==
    CASE format = "b" -> Num(0, 127)
      [] format = "h" -> Num(0, 32767)
      [] format = "i" -> Num(32767, Limb - 1)
      [] format = "B" -> Num(0, 255)
      [] format = "H" -> Num(0, Limb - 1)
      [] format = "I" -> Num(Limb - 1, Limb - 1)

InRange(format, value) ==
    NumLE(MinOf(format), value) /\ NumLE(value, MaxOf(format))

\* The low w bytes of the two's complement of value, most significant first.
ToBytes(value, w) ==
    SubSeq(<<(value.hi % Limb) \div 256, value.hi % 256,
             value.lo \div 256, value.lo % 256>>, 5 - w, 4)

\* The integer that w bytes, most significant first, stand for.
FromBytes(bs, signed) ==
    LET w == Len(bs)
        lo == IF w = 1 THEN bs[1] ELSE bs[w - 1] * 256 + bs[w]
        hi == IF w = 4 THEN bs[1] * 256 + bs[2] ELSE 0
        neg == signed /\ bs[1] >= 128
    IN  CASE ~neg -> Num(hi, lo)
          [] neg /\ w = 1 -> Num(-1, Limb - 256 + lo)
          [] neg /\ w = 2 -> Num(-1, lo)
          [] neg /\ w = 4 -> Num(hi - Limb, lo)

InOrder(bs, little_endian) == IF little_endian THEN Reverse(bs) ELSE bs

\* A float is [double |-> the 8 bytes of its IEEE 754 binary64, most
\* significant first].  The bytes that the formats 'd' and 'f' pack it to;
\* 'f' for a float that a binary32 holds exactly (no rounding, no overflow).
FloatToBytes(format, value) ==
    LET d == value.double
        sign == d[1] \div 128
        exp == (d[1] % 128) * 16 + (d[2] \div 16)
        exp32 == IF exp = 0 THEN 0 ELSE exp - 896
    IN  IF format = "d"
        THEN d
        ELSE <<sign * 128 + (exp32 \div 2),
               (exp32 % 2) * 128 + (d[2] % 16) * 8 + (d[3] \div 32),
               (d[3] % 32) * 8 + (d[4] \div 32),
               (d[4] % 32) * 8 + (d[5] \div 32)>>

\* The float that the bytes of the format 'd' or 'f' unpack to.
FloatFromBytes(format, bs) ==
    LET sign == bs[1] \div 128
        exp32 == (bs[1] % 128) * 2 + (bs[2] \div 128)
        exp == IF exp32 = 0 THEN 0 ELSE exp32 + 896
    IN  IF format = "d"
        THEN [double |-> bs]
        ELSE [double |->
                 <<sign * 128 + (exp \div 16),
                   (exp % 16) * 16 + ((bs[2] % 128) \div 8),
                   (bs[2] % 8) * 32 + (bs[3] \div 8),
                   (bs[3] % 8) * 32 + (bs[4] \div 8),
                   (bs[4] % 8) * 32, 0, 0, 0>>]

\* A mutant of pack: the value is wrapped modulo 2^width, not range checked.
pack_wrapping(format, little_endian, value) ==
    IF format = "?"
    THEN Ok(<<IF value THEN 1 ELSE 0>>)
    ELSE IF format \in {"f", "d"}
    THEN Ok(InOrder(FloatToBytes(format, value), little_endian))
    ELSE Ok(InOrder(ToBytes(value, calcsize(format)), little_endian))

\* struct.Struct(prefix + format).pack(value)
pack(format, little_endian, value) ==
    IF format = "?"
    THEN Ok(<<IF value THEN 1 ELSE 0>>)
    ELSE IF format \in {"f", "d"}
    THEN Ok(InOrder(FloatToBytes(format, value), little_endian))
    ELSE IF ~InRange(format, value)
         THEN Err("struct.error")
         ELSE Ok(InOrder(ToBytes(value, calcsize(format)), little_endian))

\* Whether size bytes lie in string from offset on (offset is never negative).
Fits(string, offset, size) ==
    /\ offset.hi = 0
    /\ NumLE(NumAdd(offset, size), N(Len(string)))

\* struct.Struct(prefix + format).unpack_from(string, offset)[0]
unpack_from(format, little_endian, string, offset) ==
    IF ~Fits(string, offset, N(calcsize(format)))
    THEN Err("struct.error")
    ELSE LET bs == InOrder(SubSeq(string, offset.lo + 1,
                                  offset.lo + calcsize(format)),
                           little_endian)
         IN  IF format = "?"
             THEN Ok(bs[1] # 0)
             ELSE IF format \in {"f", "d"}
             THEN Ok(FloatFromBytes(format, bs))
             ELSE Ok(FromBytes(bs, format \in {"b", "h", "i"}))

\* struct.pack(prefix + '{length}' + format, *values)
RECURSIVE pack_items(_, _, _)
pack_items(format, little_endian, values) ==
    IF values = <<>>
    THEN Ok(<<>>)
    ELSE LET head == pack(format, little_endian, Head(values))
             rest == pack_items(format, little_endian, Tail(values))
         IN  IF head.ok /\ rest.ok
             THEN Ok(head.val \o rest.val)
             ELSE Err("struct.error")

\* struct.unpack_from(prefix + '{length}' + format, string, offset), for a
\* length whose items lie in string.
RECURSIVE unpack_items(_, _, _, _, _)
unpack_items(format, little_endian, string, offset, length) ==
    IF length = 0
    THEN <<>>
    ELSE <<unpack_from(format, little_endian, string, offset).val>>
         \o unpack_items(format, little_endian, string,
                         NumAdd(offset, N(calcsize(format))), length - 1)

(***************************************************************************)
(* UTF-8, as unicode.encode('utf-8') and str.decode('utf-8') compute it.    *)
(***************************************************************************)

encode_code_point(cp) ==
    CASE cp < 128 -> <<cp>>
      [] cp >= 128 /\ cp < 2048 -> <<192 + (cp \div 64), 128 + (cp % 64)>>
      [] cp >= 2048 /\ cp < 65536 ->
            <<224 + (cp \div 4096), 128 + ((cp \div 64) % 64),
              128 + (cp % 64)>>
      [] cp >= 65536 ->
            <<240 + (cp \div 262144), 128 + ((cp \div 4096) % 64),
              128 + ((cp \div 64) % 64), 128 + (cp % 64)>>

RECURSIVE utf8_encode(_)
utf8_encode(text) ==
    IF text = <<>>
    THEN <<>>
    ELSE encode_code_point(Head(text)) \o utf8_encode(Tail(text))

RECURSIVE utf8_decode(_)
utf8_decode(bs) ==
    IF bs = <<>>
    THEN Ok(<<>>)
    ELSE LET b1 == bs[1]
             n == CASE b1 < 128 -> 1
                    [] b1 >= 194 /\ b1 <= 223 -> 2
                    [] b1 >= 224 /\ b1 <= 239 -> 3
                    [] b1 >= 240 /\ b1 <= 244 -> 4
                    [] OTHER -> 0
             wellformed ==
                 /\ n > 0
                 /\ Len(bs) >= n
                 /\ \A i \in 2..n : bs[i] >= 128 /\ bs[i] <= 191
                 /\ b1 = 224 => bs[2] >= 160
                 /\ b1 = 237 => bs[2] <= 159
                 /\ b1 = 240 => bs[2] >= 144
                 /\ b1 = 244 => bs[2] <= 143
             cp == CASE n = 1 -> b1
                     [] n = 2 -> (b1 - 192) * 64 + (bs[2] - 128)
                     [] n = 3 -> (b1 - 224) * 4096 + (bs[2] - 128) * 64
                                 + (bs[3] - 128)
                     [] n = 4 -> (b1 - 240) * 262144 + (bs[2] - 128) * 4096
                                 + (bs[3] - 128) * 64 + (bs[4] - 128)
         IN  IF ~wellformed
             THEN Err("UnicodeDecodeError")
             ELSE LET rest == utf8_decode(SubSeq(bs, n + 1, Len(bs)))
                  IN  IF rest.ok THEN Ok(<<cp>> \o rest.val) ELSE rest

(***************************************************************************)
(* The codec objects.  A Codec's attributes are all set by __init__ and    *)
(* never assigned again.  ArrayCodec.loads and StringCodec.loads assign    *)
(* self.size: the attribute is <<>> while the object has none (as after    *)
(* construction) and <<n>> once it holds n.  A loads operator takes the    *)
(* attribute as it is before the call and returns it as it is after.       *)
(***************************************************************************)

Codec(format) ==
    [class |-> "Codec", format |-> format, size |-> calcsize(format)]

\* obj is the identity of the object constructed.
ArrayCodec(value_format, obj) ==
    [class |-> "ArrayCodec", value_format |-> value_format, obj |-> obj]

StringCodec == [class |-> "StringCodec"]

\* The length structs '>I' and '<I'.
length_size == calcsize("I")

Codec_dumps(self, value, little_endian) ==
    pack(self.format, little_endian, value)

Codec_loads(self, string, offset, little_endian) ==
    unpack_from(self.format, little_endian, string, offset)

\* A mutant of ArrayCodec_dumps: an empty list is encoded as no bytes.
ArrayCodec_dumps_no_empty_prefix(self, values, little_endian) ==
    LET length == Len(values)
        items == pack_items(self.value_format, little_endian, values)
    IN  IF length = 0
        THEN Ok(<<>>)
        ELSE IF items.ok
        THEN Ok(pack("I", little_endian, N(length)).val \o items.val)
        ELSE items

ArrayCodec_dumps(self, values, little_endian) ==
    LET length == Len(values)
        items == pack_items(self.value_format, little_endian, values)
    IN  IF items.ok
        THEN Ok(pack("I", little_endian, N(length)).val \o items.val)
        ELSE items

Loaded(ok, val, size) == [ok |-> ok, val |-> val, size |-> size]

\* A mutant of ArrayCodec_loads: self.size is the payload without the prefix.
ArrayCodec_loads_no_prefix(self, size, string, offset, little_endian) ==
    LET length == unpack_from("I", little_endian, string, offset)
        esize == calcsize(self.value_format)
    IN  IF ~length.ok
        THEN Loaded(FALSE, length.err, size)
        ELSE IF length.val # N(0)
        THEN LET new == <<NumMul(length.val, esize)>>
                 from == NumAdd(offset, N(length_size))
             IN  IF Fits(string, from, NumMul(length.val, esize))
                 THEN Loaded(TRUE,
                             unpack_items(self.value_format, little_endian,
                                          string, from, length.val.lo),
                             new)
                 ELSE Loaded(FALSE, "struct.error", new)
        ELSE Loaded(TRUE, <<>>, <<N(0)>>)

ArrayCodec_loads(self, size, string, offset, little_endian) ==
    LET length == unpack_from("I", little_endian, string, offset)
        esize == calcsize(self.value_format)
    IN  IF ~length.ok
        THEN Loaded(FALSE, length.err, size)
        ELSE IF length.val # N(0)
        THEN LET new == <<NumAdd(NumMul(length.val, esize), N(length_size))>>
                 from == NumAdd(offset, N(length_size))
             IN  IF Fits(string, from, NumMul(length.val, esize))
                 THEN Loaded(TRUE,
                             unpack_items(self.value_format, little_endian,
                                          string, from, length.val.lo),
                             new)
                 ELSE Loaded(FALSE, "struct.error", new)
        ELSE Loaded(TRUE, <<>>, <<N(length_size)>>)

StringCodec_dumps(self, value, little_endian) ==
    LET bs == utf8_encode(value)
    IN  Ok(pack("I", little_endian, N(Len(bs))).val \o bs)

\* A mutant of StringCodec_loads: the payload is sliced out of the string,
\* so a payload cut short is decoded as far as it goes.
StringCodec_loads_slicing(self, size, string, offset, little_endian) ==
    LET length == unpack_from("I", little_endian, string, offset)
    IN  IF ~length.ok
        THEN Loaded(FALSE, length.err, size)
        ELSE IF length.val # N(0)
        THEN LET new == <<NumAdd(length.val, N(length_size))>>
                 from == NumAdd(offset, N(length_size))
                 to == IF Fits(string, from, length.val)
                       THEN from.lo + length.val.lo
                       ELSE Len(string)
                 text == utf8_decode(SubSeq(string, from.lo + 1, to))
             IN  IF text.ok
                 THEN Loaded(TRUE, text.val, new)
                 ELSE Loaded(FALSE, text.err, new)
        ELSE Loaded(TRUE, <<>>, <<N(length_size)>>)

StringCodec_loads(self, size, string, offset, little_endian) ==
    LET length == unpack_from("I", little_endian, string, offset)
    IN  IF ~length.ok
        THEN Loaded(FALSE, length.err, size)
        ELSE IF length.val # N(0)
        THEN LET new == <<NumAdd(length.val, N(length_size))>>
                 from == NumAdd(offset, N(length_size))
             IN  IF Fits(string, from, length.val)
                 THEN LET text == utf8_decode(SubSeq(string, from.lo + 1,
                                                     from.lo + length.val.lo))
                      IN  IF text.ok
                          THEN Loaded(TRUE, text.val, new)
                          ELSE Loaded(FALSE, text.err, new)
                 ELSE Loaded(FALSE, "struct.error", new)
        ELSE Loaded(TRUE, <<>>, <<N(length_size)>>)

\* The table of shared codec objects, by type tag.
_codecs ==
    [boolean |-> Codec("?"), float32 |-> Codec("f"), float64 |-> Codec("d"),
     int8 |-> Codec("b"), int16 |-> Codec("h"), int32 |-> Codec("i"),
     string |-> StringCodec,
     uint8 |-> Codec("B"), uint16 |-> Codec("H"), uint32 |-> Codec("I")]

(***************************************************************************)
(* Field.  A field spec is the kwargs dict [key, type, value_type], with   *)
(* value_type "None" when it is not given.  obj is the identity of the     *)
(* ArrayCodec that the constructor creates for an array field.             *)
(***************************************************************************)

\* A mutant of Field: an array's value_type is not validated.
Field_unchecked_value_type(key, type, value_type, obj) ==
    IF key = ""
    THEN Err("ValueError")
    ELSE IF type = "array"
    THEN Ok([key |-> key, type |-> type, value_type |-> value_type,
             codec |-> ArrayCodec(IF value_type \in DOMAIN _codecs
                                     /\ value_type # "string"
                                  THEN _codecs[value_type].format
                                  ELSE "B", obj)])
    ELSE IF type \in DOMAIN _codecs
    THEN Ok([key |-> key, type |-> type, value_type |-> value_type,
             codec |-> _codecs[type]])
    ELSE Err("ValueError")

Field(key, type, value_type, obj) ==
    IF key = ""
    THEN Err("ValueError")
    ELSE IF type = "array"
    THEN IF value_type \in {"array", "string"}
            \/ value_type \notin DOMAIN _codecs
         THEN Err("ValueError")
         ELSE Ok([key |-> key, type |-> type, value_type |-> value_type,
                  codec |-> ArrayCodec(_codecs[value_type].format, obj)])
    ELSE IF type \in DOMAIN _codecs
    THEN Ok([key |-> key, type |-> type, value_type |-> value_type,
             codec |-> _codecs[type]])
    ELSE Err("ValueError")

(***************************************************************************)
(* The size attributes that loads calls assign: sizes.string is that of    *)
(* the shared StringCodec, sizes.array[obj] that of the ArrayCodec obj.    *)
(***************************************************************************)

\* field.codec.size, as Definition.loads reads it.
SizeOf(sizes, codec) ==
    CASE codec.class = "Codec" -> <<N(codec.size)>>
      [] codec.class = "StringCodec" -> sizes.string
      [] codec.class = "ArrayCodec" -> sizes.array[codec.obj]

WithSize(sizes, codec, size) ==
    CASE codec.class = "Codec" -> sizes
      [] codec.class = "StringCodec" -> [sizes EXCEPT !.string = size]
      [] codec.class = "ArrayCodec" ->
            [sizes EXCEPT !.array = [@ EXCEPT ![codec.obj] = size]]

\* field.codec.dumps(value, little_endian)
dumps(codec, value, little_endian) ==
    CASE codec.class = "Codec" -> Codec_dumps(codec, value, little_endian)
      [] codec.class = "StringCodec" ->
            StringCodec_dumps(codec, value, little_endian)
      [] codec.class = "ArrayCodec" ->
            ArrayCodec_dumps(codec, value, little_endian)

\* field.codec.loads(string, offset, little_endian), with the codec's size
\* attribute before the call; the result carries the attribute after it.
loads(codec, size, string, offset, little_endian) ==
    CASE codec.class = "Codec" ->
            LET r == Codec_loads(codec, string, offset, little_endian)
            IN  Loaded(r.ok, IF r.ok THEN r.val ELSE r.err, size)
      [] codec.class = "StringCodec" ->
            StringCodec_loads(codec, size, string, offset, little_endian)
      [] codec.class = "ArrayCodec" ->
            ArrayCodec_loads(codec, size, string, offset, little_endian)

(***************************************************************************)
(* Definition                                                              *)
(***************************************************************************)

Definition(fields, id, key, little_endian) ==
    [fields |-> fields, id |-> id, key |-> key,
     little_endian |-> little_endian]

\* A mutant of Definition_dumps_from: each field's bytes are put before the
\* bytes so far.
RECURSIVE Definition_dumps_from_prepending(_, _, _, _)
Definition_dumps_from_prepending(self, data, i, string) ==
    IF i > Len(self.fields)
    THEN Ok(string)
    ELSE LET field == self.fields[i]
         IN  IF field.key \notin DOMAIN data
             THEN Err("KeyError")
             ELSE LET r == dumps(field.codec, data[field.key],
                                 self.little_endian)
                  IN  IF r.ok
                      THEN Definition_dumps_from_prepending(
                               self, data, i + 1, r.val \o string)
                      ELSE r

\* The loop of Definition.dumps from field i on, string being the bytes so far.
RECURSIVE Definition_dumps_from(_, _, _, _)
Definition_dumps_from(self, data, i, string) ==
    IF i > Len(self.fields)
    THEN Ok(string)
    ELSE LET field == self.fields[i]
         IN  IF field.key \notin DOMAIN data
             THEN Err("KeyError")
             ELSE LET r == dumps(field.codec, data[field.key],
                                 self.little_endian)
                  IN  IF r.ok
                      THEN Definition_dumps_from(self, data, i + 1,
                                                 string \o r.val)
                      ELSE r

Definition_dumps(self, data) == Definition_dumps_from(self, data, 1, <<>>)

\* The outcome of Definition.loads: the dict (or the exception raised), the
\* size attributes and the cursor when it ends.
Decoded(ok, val, sizes, offset) ==
    [ok |-> ok, val |-> val, sizes |-> sizes, offset |-> offset]

\* The loop of Definition.loads from field i on.
RECURSIVE Definition_loads_from(_, _, _, _, _, _)
Definition_loads_from(self, sizes, string, offset, i, values) ==
    IF i > Len(self.fields)
    THEN Decoded(TRUE, values, sizes, offset)
    ELSE LET field == self.fields[i]
             r == loads(field.codec, SizeOf(sizes, field.codec), string,
                        offset, self.little_endian)
             after == WithSize(sizes, field.codec, r.size)
         IN  IF r.ok
             THEN Definition_loads_from(
                      self, after, string,
                      NumAdd(offset, SizeOf(after, field.codec)[1]), i + 1,
                      (field.key :> r.val) @@ values)
             ELSE Decoded(FALSE, r.val, after, offset)

Definition_loads(self, sizes, string, offset) ==
    Definition_loads_from(self, sizes, string, offset, 1, <<>>)

(***************************************************************************)
(* Schema.  A schema is [definitions, definitions_by_id,                   *)
(* next_definition_id]; id_type is the constructor's default.              *)
(***************************************************************************)

id_type == "uint8"

Schema ==
    [definitions |-> <<>>, definitions_by_id |-> <<>>,
     next_definition_id |-> 1]

\* The Field objects that define builds from the field specs.
BuiltFields(self, fields) ==
    [i \in 1..Len(fields) |->
        Field(fields[i].key, fields[i].type, fields[i].value_type,
              <<self.next_definition_id, i>>)]

\* The ArrayCodec objects among the fields of a Definition.
ArrayCodecsOf(definition) ==
    {definition.fields[i].codec.obj :
        i \in {j \in 1..Len(definition.fields) :
                  definition.fields[j].codec.class = "ArrayCodec"}}

\* A mutant of Schema_define: a key defined before keeps the id it has.
Schema_define_reusing_id(self, key, fields) ==
    LET built == BuiltFields(self, fields)
    IN  IF \E i \in 1..Len(fields) : ~built[i].ok
        THEN [ok |-> FALSE, err |-> "ValueError", schema |-> self]
        ELSE LET definition ==
                     Definition([i \in 1..Len(fields) |-> built[i].val],
                                IF key \in DOMAIN self.definitions
                                THEN self.definitions[key].id
                                ELSE self.next_definition_id,
                                key, FALSE)
             IN  [ok |-> TRUE, val |-> definition,
                  schema |->
                     [definitions |->
                         (key :> definition) @@ self.definitions,
                      definitions_by_id |->
                         (definition.id :> definition)
                            @@ self.definitions_by_id,
                      next_definition_id |-> self.next_definition_id + 1]]

\* A mutant of Schema_define: the id is taken before the fields are built,
\* so a call that raises has consumed it.
Schema_define_consuming_id(self, key, fields) ==
    LET built == BuiltFields(self, fields)
    IN  IF \E i \in 1..Len(fields) : ~built[i].ok
        THEN [ok |-> FALSE, err |-> "ValueError",
              schema |-> [self EXCEPT !.next_definition_id = @ + 1]]
        ELSE LET definition ==
                     Definition([i \in 1..Len(fields) |-> built[i].val],
                                self.next_definition_id, key, FALSE)
             IN  [ok |-> TRUE, val |-> definition,
                  schema |->
                     [definitions |->
                         (key :> definition) @@ self.definitions,
                      definitions_by_id |->
                         (definition.id :> definition)
                            @@ self.definitions_by_id,
                      next_definition_id |-> self.next_definition_id + 1]]

\* Schema.define: the Definition returned (or the exception) and the schema
\* after the call.
Schema_define(self, key, fields) ==
    LET built == BuiltFields(self, fields)
    IN  IF \E i \in 1..Len(fields) : ~built[i].ok
        THEN [ok |-> FALSE, err |-> "ValueError", schema |-> self]
        ELSE LET definition ==
                     Definition([i \in 1..Len(fields) |-> built[i].val],
                                self.next_definition_id, key, FALSE)
             IN  [ok |-> TRUE, val |-> definition,
                  schema |->
                     [definitions |->
                         (key :> definition) @@ self.definitions,
                      definitions_by_id |->
                         (definition.id :> definition)
                            @@ self.definitions_by_id,
                      next_definition_id |-> self.next_definition_id + 1]]

\* A mutant of Schema_dumps: an undefined key yields an empty string.
Schema_dumps_no_lookup_error(self, key, data) ==
    IF key \notin DOMAIN self.definitions
    THEN Ok(<<>>)
    ELSE LET definition == self.definitions[key]
             id == Codec_dumps(_codecs[id_type], N(definition.id), FALSE)
             body == Definition_dumps(definition, data)
         IN  IF ~id.ok THEN id
             ELSE IF ~body.ok THEN body
             ELSE Ok(id.val \o body.val)

Schema_dumps(self, key, data) ==
    IF key \notin DOMAIN self.definitions
    THEN Err("KeyError")
    ELSE LET definition == self.definitions[key]
             id == Codec_dumps(_codecs[id_type], N(definition.id), FALSE)
             body == Definition_dumps(definition, data)
         IN  IF ~id.ok THEN id
             ELSE IF ~body.ok THEN body
             ELSE Ok(id.val \o body.val)

\* Schema.loads, with the size attributes before the call.
Schema_loads(self, sizes, string) ==
    LET id_codec == _codecs[id_type]
        definition_id == Codec_loads(id_codec, string, N(0), FALSE)
    IN  IF ~definition_id.ok
        THEN Decoded(FALSE, definition_id.err, sizes, N(0))
        ELSE IF definition_id.val.hi # 0
                \/ definition_id.val.lo \notin DOMAIN self.definitions_by_id
        THEN Decoded(FALSE, "KeyError", sizes, N(0))
        ELSE Definition_loads(
                 self.definitions_by_id[definition_id.val.lo], sizes, string,
                 N(id_codec.size))

(***************************************************************************)
(* The state.  schema is one Schema object, sizes the size attributes of   *)
(* the StringCodec and of the ArrayCodecs its fields hold, last the last   *)
(* call with its outcome, defines the number of define calls that have     *)
(* returned a Definition, threads the threads that decode concurrently.    *)
(***************************************************************************)
VARIABLES schema, sizes, last, defines, threads

vars == <<schema, sizes, last, defines, threads>>

\* The size attributes before any loads call.
NoSizes == [string |-> <<>>, array |-> <<>>]

\* The size attributes once the ArrayCodecs of a new Definition exist.
WithArrayCodecs(s, definition) ==
    [s EXCEPT !.array = [o \in ArrayCodecsOf(definition) |-> <<>>] @@ @]

(***************************************************************************)
(* The inputs.                                                             *)
(***************************************************************************)

\* How many define calls a schema receives beyond those of its initial state.
MaxDefines == 2

\* The define calls a schema of the second initial state has received.
PreDefined == 254

Keys == {"spawn", "position"}

Spec1(key, type) == [key |-> key, type |-> type, value_type |-> "None"]

Spec2(key, type, value_type) ==
    [key |-> key, type |-> type, value_type |-> value_type]

\* Field lists that define accepts.
ValidFieldLists ==
    { <<Spec1("entity_id", "uint8")>>,
      <<Spec1("name", "string"), Spec1("health", "int16")>>,
      <<Spec2("points", "array", "uint16"), Spec1("health", "int8")>> }

\* Field lists with a field that Field rejects.
InvalidFieldLists ==
    { <<Spec1("entity_id", "uint8"), Spec1("", "int8")>>,
      <<Spec2("points", "array", "string")>>,
      <<Spec2("points", "array", "uint16"), Spec1("health", "int")>> }

\* The values tried for a field: two that its type holds.
ValuesOf(field) ==
    CASE field.type = "uint8" -> {N(0), N(255)}
      [] field.type = "int8" -> {N(-128), N(5)}
      [] field.type = "int16" -> {N(-2), N(258)}
      [] field.type = "string" -> {<<>>, <<104, 248>>}
      [] field.type = "array" -> {<<>>, <<N(1), N(515)>>}

\* The dicts with a value of ValuesOf for every field from field i on.
RECURSIVE RecordsFrom(_, _)
RecordsFrom(fields, i) ==
    IF i > Len(fields)
    THEN {<<>>}
    ELSE {(fields[i].key :> v) @@ r :
             v \in ValuesOf(fields[i]), r \in RecordsFrom(fields, i + 1)}

Records(definition) == RecordsFrom(definition.fields, 1)

\* A dict whose first field holds a value out of its type's range.
OutOfRange(definition) ==
    LET field == definition.fields[1]
        data == CHOOSE r \in Records(definition) : TRUE
    IN  IF field.type \in {"uint8", "int8", "int16"}
        THEN {(field.key :> N(40000)) @@ data}
        ELSE {}

\* The Definition that the i-th define call on a fresh schema returns when
\* every call passes the same key and field list.
NthDefinition(i) ==
    Schema_define([Schema EXCEPT !.next_definition_id = i], "spawn",
                  <<Spec1("entity_id", "uint8")>>).val

\* The schema after n such define calls: the key maps to the newest
\* Definition and every id assigned so far to its own.
Defined(n) ==
    IF n = 0
    THEN Schema
    ELSE [definitions |-> [k \in {"spawn"} |-> NthDefinition(n)],
          definitions_by_id |-> [i \in 1..n |-> NthDefinition(i)],
          next_definition_id |-> n + 1]

(***************************************************************************)
(* The sequential use of one Schema: define, dumps and loads calls in any  *)
(* order.                                                                  *)
(***************************************************************************)

Init ==
    /\ \E n \in {0, PreDefined} : schema = Defined(n) /\ defines = n
    /\ sizes = NoSizes
    /\ last = [op |-> "Schema"]
    /\ threads = <<>>

\* The ids that the define calls of the model assign.
Definable ==
    (1..MaxDefines) \cup ((PreDefined + 1)..(PreDefined + MaxDefines))

Define(key, fields) ==
    /\ schema.next_definition_id \in Definable
    /\ LET r == Schema_define(schema, key, fields)
       IN  /\ schema' = r.schema
           /\ sizes' = IF r.ok THEN WithArrayCodecs(sizes, r.val) ELSE sizes
           /\ defines' = IF r.ok THEN defines + 1 ELSE defines
           /\ last' = [op |-> "define", key |-> key, ok |-> r.ok,
                       ret |-> IF r.ok THEN r.val ELSE r.err]
    /\ UNCHANGED threads

Dumps(key, data) ==
    /\ LET r == Schema_dumps(schema, key, data)
       IN  last' = [op |-> "dumps", key |-> key, data |-> data, ok |-> r.ok,
                    ret |-> IF r.ok THEN r.val ELSE r.err]
    /\ UNCHANGED <<schema, sizes, defines, threads>>

Loads(string) ==
    /\ LET r == Schema_loads(schema, sizes, string)
       IN  /\ sizes' = r.sizes
           /\ last' = [op |-> "loads", string |-> string, ok |-> r.ok,
                       ret |-> r.val]
    /\ UNCHANGED <<schema, defines, threads>>

\* The dicts passed to dumps for a key: those of its Definition when it has
\* one, an empty dict otherwise.
DumpInputs(key) ==
    IF key \in DOMAIN schema.definitions
    THEN Records(schema.definitions[key])
            \cup OutOfRange(schema.definitions[key])
    ELSE {<<>>}

\* The strings passed to loads: what the last dumps returned, whole and cut
\* short by a byte, and strings that lead with an id of no Definition.
LoadInputs ==
    (IF last.op = "dumps" /\ last.ok
     THEN {last.ret, SubSeq(last.ret, 1, Len(last.ret) - 1)}
     ELSE {})
    \cup {<<0, 1>>, <<255>>, <<schema.next_definition_id % 256, 0>>}

Next ==
    \/ \E key \in Keys, fields \in ValidFieldLists \cup InvalidFieldLists :
          Define(key, fields)
    \/ \E key \in Keys : \E data \in DumpInputs(key) : Dumps(key, data)
    \/ \E string \in LoadInputs : Loads(string)

Spec == Init /\ [][Next]_vars

(***************************************************************************)
(* Properties of the sequential use of a Schema.                           *)
(***************************************************************************)

\* C1: for every key defined and every dict of in-range values for its
\* fields, dumps returns a string and loads of that string returns the dict.
C1_RoundTrip ==
    \A key \in DOMAIN schema.definitions :
        \A data \in Records(schema.definitions[key]) :
            LET string == Schema_dumps(schema, key, data)
            IN  /\ string.ok
                /\ Schema_loads(schema, sizes, string.val).ok
                /\ Schema_loads(schema, sizes, string.val).val = data

\* C2: the n-th define call that returns a Definition returns one with id n,
\* and next_definition_id is 1 plus the number of such calls.
C2_SequentialIds ==
    /\ schema.next_definition_id = defines + 1
    /\ last.op = "define" /\ last.ok => last.ret.id = defines

\* C2 witness: a second define call returned, with the key of the first.
C2_Witness ==
    /\ last.op = "define" /\ last.ok
    /\ defines = 2
    /\ DOMAIN schema.definitions = {last.key}

\* C3 as stated: ids are unique and in [1, next_definition_id), and each map
\* leads back to the same Definition through the other.
C3_MapsAgree ==
    /\ \A i \in DOMAIN schema.definitions_by_id :
          LET d == schema.definitions_by_id[i]
          IN  /\ d.id = i
              /\ i >= 1 /\ i < schema.next_definition_id
              /\ d.key \in DOMAIN schema.definitions
              /\ schema.definitions[d.key] = d
    /\ \A k \in DOMAIN schema.definitions :
          LET d == schema.definitions[k]
          IN  /\ d.id \in DOMAIN schema.definitions_by_id
              /\ schema.definitions_by_id[d.id] = d

\* C3 amended: ids are unique and are exactly those of [1,
\* next_definition_id); a key leads through definitions_by_id back to the same
\* Definition; an id leads through definitions to the Definition defined last
\* under its key, which is the same Definition or one with a greater id.
C3_MapsAgreeOnNewest ==
    /\ DOMAIN schema.definitions_by_id = 1..(schema.next_definition_id - 1)
    /\ \A i \in DOMAIN schema.definitions_by_id :
          LET d == schema.definitions_by_id[i]
          IN  /\ d.id = i
              /\ d.key \in DOMAIN schema.definitions
              /\ schema.definitions[d.key].id >= i
              /\ schema.definitions[d.key].id = i =>
                    schema.definitions[d.key] = d
    /\ \A k \in DOMAIN schema.definitions :
          LET d == schema.definitions[k]
          IN  /\ d.key = k
              /\ d.id \in DOMAIN schema.definitions_by_id
              /\ schema.definitions_by_id[d.id] = d

\* C3 witness: a key was defined again, so an older id no longer leads back
\* to its own Definition through definitions.
C3_Witness ==
    \E i \in DOMAIN schema.definitions_by_id :
        LET d == schema.definitions_by_id[i]
        IN  /\ d.key \in DOMAIN schema.definitions
            /\ schema.definitions[d.key].id > i
            /\ schema.definitions[d.key].fields # d.fields

\* C4: a call never removes, replaces or renumbers the Definition of an id
\* assigned before, and a define call returns no id assigned before.
C4_IdsNeverReused ==
    [][/\ \A i \in DOMAIN schema.definitions_by_id :
             /\ i \in DOMAIN schema'.definitions_by_id
             /\ schema'.definitions_by_id[i] = schema.definitions_by_id[i]
             /\ schema'.definitions_by_id[i].id = i
       /\ defines' # defines =>
             last'.ret.id \notin DOMAIN schema.definitions_by_id]_vars

\* C4 witness: a define call returned for a key that an older Definition
\* has, and the older id still leads to the older Definition.
C4_Witness ==
    /\ last.op = "define" /\ last.ok
    /\ \E i \in DOMAIN schema.definitions_by_id :
          /\ i < last.ret.id
          /\ schema.definitions_by_id[i].key = last.key
          /\ schema.definitions_by_id[i].fields # last.ret.fields

\* C5: dumps of a key that has no Definition and loads of a string whose
\* leading id has none raise KeyError, return nothing and leave the schema as
\* it is.
C5_LookupErrors ==
    [][/\ last'.op = "dumps" /\ last'.key \notin DOMAIN schema.definitions =>
             /\ ~last'.ok /\ last'.ret = "KeyError"
             /\ UNCHANGED <<schema, sizes, defines>>
       /\ (/\ last'.op = "loads"
           /\ Len(last'.string) >= 1
           /\ last'.string[1] \notin DOMAIN schema.definitions_by_id) =>
             /\ ~last'.ok /\ last'.ret = "KeyError"
             /\ UNCHANGED <<schema, sizes, defines>>]_vars

\* C5 witness: loads was called with a leading id that is not assigned yet,
\* on a schema that has Definitions.
C5_Witness ==
    /\ last.op = "loads"
    /\ Len(last.string) >= 1
    /\ last.string[1] >= schema.next_definition_id
    /\ schema.next_definition_id > 1
    /\ ~last.ok

\* C6: every id registered fits the id codec, so a schema with the default
\* id type holds at most 255 Definitions.
C6_IdsFitIdCodec ==
    \A i \in DOMAIN schema.definitions_by_id :
        InRange(_codecs[id_type].format, N(i))

EncodedSize(field, value) ==
    IF field.type = "string"
    THEN N(4 + Len(utf8_encode(value)))
    ELSE N(4 + Len(value) * _codecs[field.value_type].size)

FieldKeys == {"", "x"}

\* The type tags of the table, array, and names that are no type tag
\* ("None" is an argument that was not given).
TypeArgs ==
    {"boolean", "float32", "float64", "int8", "int16", "int32", "string",
     "uint8", "uint16", "uint32", "array", "bool", "int64", "None"}

InitField ==
    /\ schema = Schema
    /\ sizes = NoSizes
    /\ defines = 0
    /\ threads = <<>>
    /\ \E key \in FieldKeys, type \in TypeArgs, value_type \in TypeArgs :
          last = [op |-> "Field", key |-> key, type |-> type,
                  value_type |-> value_type, done |-> FALSE]

Construct ==
    /\ last.op = "Field" /\ ~last.done
    /\ LET r == Field(last.key, last.type, last.value_type, <<0, 1>>)
       IN  last' = [op |-> "Field", key |-> last.key, type |-> last.type,
                    value_type |-> last.value_type, done |-> TRUE,
                    ok |-> r.ok, ret |-> IF r.ok THEN r.val ELSE r.err]
    /\ UNCHANGED <<schema, sizes, defines, threads>>

SpecField == InitField /\ [][Construct]_vars

\* The tags of scalar values and all type tags.
ScalarTags ==
    {"boolean", "float32", "float64", "int8", "int16", "int32", "uint8",
     "uint16", "uint32"}

KnownTags == ScalarTags \cup {"string", "array"}

\* C9: the constructor raises when the key is empty, the type is no type
\* tag, or the type is array and the value_type is missing or no scalar tag;
\* a Field that is constructed holds the codec of its type.
C9_FieldValidation ==
    last.op = "Field" /\ last.done =>
        /\ (\/ last.key = ""
            \/ last.type \notin KnownTags
            \/ last.type = "array" /\ last.value_type \notin ScalarTags)
              => ~last.ok /\ last.ret = "ValueError"
        /\ last.ok =>
              /\ last.ret.key = last.key
              /\ last.type = "array" =>
                    /\ last.ret.codec.class = "ArrayCodec"
                    /\ last.ret.codec.value_format
                          = _codecs[last.value_type].format
              /\ last.type = "string" =>
                    last.ret.codec.class = "StringCodec"
              /\ last.type \in ScalarTags =>
                    /\ last.ret.codec.class = "Codec"
                    /\ last.ret.codec = _codecs[last.type]

\* C9 witness: an array of strings was rejected by the constructor.
C9_Witness ==
    /\ last.op = "Field" /\ last.done
    /\ last.key = "x" /\ last.type = "array" /\ last.value_type = "string"
    /\ ~last.ok

(***************************************************************************)
(* An integer codec on its own: a tag, a byte order and a value, then      *)
(* dumps, then loads of what dumps returned.                               *)
(***************************************************************************)

IntegerTags == {"int8", "int16", "int32", "uint8", "uint16", "uint32"}

\* The values around the bounds of every integer tag.
BoundaryValues ==
    { Num(-32769, Limb - 1), Num(-32768, 0), N(-32769), N(-32768), N(-129),
      N(-128), N(-1), N(0), N(1), N(127), N(128), N(255), N(256), N(32767),
      N(32768), N(65535), N(65536), Num(32767, Limb - 1), Num(32768, 0),
      Num(Limb - 1, Limb - 1), Num(Limb, 0) }

InitCodec ==
    /\ schema = Schema
    /\ sizes = NoSizes
    /\ defines = 0
    /\ threads = <<>>
    /\ \E tag \in IntegerTags, little_endian \in BOOLEAN,
          value \in BoundaryValues :
          last = [op |-> "Codec", tag |-> tag,
                  little_endian |-> little_endian, value |-> value,
                  phase |-> "call"]

CodecDumps ==
    /\ last.op = "Codec" /\ last.phase = "call"
    /\ last' = [op |-> "Codec", tag |-> last.tag,
                little_endian |-> last.little_endian, value |-> last.value,
                phase |-> "dumped",
                out |-> Codec_dumps(_codecs[last.tag], last.value,
                                    last.little_endian)]
    /\ UNCHANGED <<schema, sizes, defines, threads>>

CodecLoads ==
    /\ last.op = "Codec" /\ last.phase = "dumped" /\ last.out.ok
    /\ last' = [op |-> "Codec", tag |-> last.tag,
                little_endian |-> last.little_endian, value |-> last.value,
                phase |-> "loaded", out |-> last.out,
                back |-> Codec_loads(_codecs[last.tag], last.out.val, N(0),
                                     last.little_endian)]
    /\ UNCHANGED <<schema, sizes, defines, threads>>

SpecCodec == InitCodec /\ [][CodecDumps \/ CodecLoads]_vars

\* The width in bits of an integer tag and whether it is signed.
TagBits(tag) ==
    CASE tag \in {"int8", "uint8"} -> 8
      [] tag \in {"int16", "uint16"} -> 16
      [] tag \in {"int32", "uint32"} -> 32

TagSigned(tag) == tag \in {"int8", "int16", "int32"}

\* 2^b and its negation as integers of the program.
TwoTo(b) == IF b < 16 THEN Num(0, 2 ^ b) ELSE Num(2 ^ (b - 16), 0)

MinusTwoTo(b) ==
    IF b < 16 THEN Num(-1, Limb - 2 ^ b) ELSE Num(-(2 ^ (b - 16)), 0)

NumLT(a, b) == ~NumLE(b, a)

Representable(tag, value) ==
    IF TagSigned(tag)
    THEN /\ NumLE(MinusTwoTo(TagBits(tag) - 1), value)
         /\ NumLT(value, TwoTo(TagBits(tag) - 1))
    ELSE /\ NumLE(N(0), value)
         /\ NumLT(value, TwoTo(TagBits(tag)))

\* C10: dumps of a value outside the range of the tag raises struct.error
\* and returns nothing; dumps of a value in the range returns as many bytes
\* as the tag is wide, and loads of them returns the value.
C10_RangeChecked ==
    last.op = "Codec" /\ last.phase # "call" =>
        IF Representable(last.tag, last.value)
        THEN /\ last.out.ok
             /\ Len(last.out.val) * 8 = TagBits(last.tag)
             /\ last.phase = "loaded" =>
                   last.back.ok /\ last.back.val = last.value
        ELSE ~last.out.ok /\ last.out.err = "struct.error"

\* C10 witness: dumps refused 256 as a uint8.
C10_Witness ==
    /\ last.op = "Codec" /\ last.phase = "dumped"
    /\ last.tag = "uint8" /\ last.value = N(256)
    /\ ~last.out.ok

(***************************************************************************)
(* Concurrent decoding.  A schema is built by two define calls and then    *)
(* only read: every thread runs Schema.loads on a string of its own.  A    *)
(* thread may be preempted between the call of field.codec.loads and the   *)
(* read of field.codec.size that follows it in Definition.loads.           *)
(***************************************************************************)

NumThreads == 2

Threads == 1..NumThreads

\* The schema the threads share: a string and an array, each followed by a
\* further field.
ServedDefines ==
    LET spawn == Schema_define(Schema, "spawn",
                               <<Spec1("name", "string"),
                                 Spec1("health", "int16")>>)
        position == Schema_define(spawn.schema, "position",
                                  <<Spec2("points", "array", "uint16"),
                                    Spec1("health", "int8")>>)
    IN  <<spawn, position>>

ServedSchema == ServedDefines[2].schema

ServedSizes ==
    WithArrayCodecs(WithArrayCodecs(NoSizes, ServedDefines[1].val),
                    ServedDefines[2].val)

\* The strings the threads decode: what dumps returns for the dicts of the
\* two Definitions.
ServedStrings ==
    UNION {{Schema_dumps(ServedSchema, key, data).val :
               data \in Records(ServedSchema.definitions[key])} :
           key \in DOMAIN ServedSchema.definitions}

\* A thread about to call Schema.loads(string).
Calling(string) ==
    [pc |-> "call", string |-> string, id |-> 0, offset |-> N(0), i |-> 1,
     values |-> <<>>, ok |-> FALSE, ret |-> "None"]

Returned(thread, ok, ret) ==
    [thread EXCEPT !.pc = "done", !.ok = ok, !.ret = ret]

InitLoads ==
    /\ schema = ServedSchema
    /\ sizes = ServedSizes
    /\ defines = 2
    /\ last = [op |-> "threads"]
    /\ threads \in [Threads -> {Calling(string) : string \in ServedStrings}]

\* Schema.loads up to the call of definition.loads: the id is decoded and
\* its Definition looked up.
ThreadLookup(t) ==
    /\ threads[t].pc = "call"
    /\ LET id_codec == _codecs[id_type]
           definition_id == Codec_loads(id_codec, threads[t].string, N(0),
                                        FALSE)
       IN  threads' =
              [threads EXCEPT ![t] =
                  IF ~definition_id.ok
                  THEN Returned(@, FALSE, definition_id.err)
                  ELSE IF definition_id.val.hi # 0
                          \/ definition_id.val.lo
                                \notin DOMAIN schema.definitions_by_id
                  THEN Returned(@, FALSE, "KeyError")
                  ELSE [@ EXCEPT !.pc = "decode",
                                 !.id = definition_id.val.lo,
                                 !.offset = N(id_codec.size)]]
    /\ UNCHANGED <<schema, sizes, defines, last>>

\* Definition.loads, one field: data[field.key] = field.codec.loads(...).
ThreadDecode(t) ==
    /\ threads[t].pc = "decode"
    /\ LET self == schema.definitions_by_id[threads[t].id]
           field == self.fields[threads[t].i]
           r == loads(field.codec, SizeOf(sizes, field.codec),
                      threads[t].string, threads[t].offset,
                      self.little_endian)
       IN  /\ sizes' = WithSize(sizes, field.codec, r.size)
           /\ threads' =
                 [threads EXCEPT ![t] =
                     IF r.ok
                     THEN [@ EXCEPT !.pc = "advance",
                                    !.values = (field.key :> r.val) @@ @]
                     ELSE Returned(@, FALSE, r.val)]
    /\ UNCHANGED <<schema, defines, last>>

\* Definition.loads, one field: offset += field.codec.size, then the next
\* field or the return of the dict.
ThreadAdvance(t) ==
    /\ threads[t].pc = "advance"
    /\ LET self == schema.definitions_by_id[threads[t].id]
           field == self.fields[threads[t].i]
           offset == NumAdd(threads[t].offset, SizeOf(sizes, field.codec)[1])
       IN  threads' =
              [threads EXCEPT ![t] =
                  IF threads[t].i = Len(self.fields)
                  THEN Returned([@ EXCEPT !.offset = offset], TRUE, @.values)
                  ELSE [@ EXCEPT !.pc = "decode", !.offset = offset,
                                 !.i = @ + 1]]
    /\ UNCHANGED <<schema, sizes, defines, last>>

NextLoads ==
    \E t \in Threads : ThreadLookup(t) \/ ThreadDecode(t) \/ ThreadAdvance(t)

SpecLoads == InitLoads /\ [][NextLoads]_vars

\* C7: every thread's Schema.loads returns what the same call returns when
\* no other thread runs.
C7_ConcurrentLoadsAsAlone ==
    \A t \in Threads :
        threads[t].pc = "done" =>
            LET alone == Schema_loads(ServedSchema, ServedSizes,
                                      threads[t].string)
            IN  /\ threads[t].ok = alone.ok
                /\ threads[t].ret = alone.val

(***************************************************************************)
(* Further properties of the sequential use of a Schema.                   *)
(***************************************************************************)

\* C15: a define call that raises leaves next_definition_id, definitions and
\* definitions_by_id as they were, and a define call that returns a
\* Definition gives it the id that was next before the call, whether or not
\* calls before it raised.
C15_FailedDefineNoEffect ==
    [][last'.op = "define" =>
          IF last'.ok
          THEN /\ last'.ret.id = schema.next_definition_id
               /\ schema'.next_definition_id = schema.next_definition_id + 1
          ELSE /\ schema' = schema
               /\ sizes' = sizes
               /\ defines' = defines]_vars

\* C15 witness: a define call raised on a schema that holds one Definition,
\* and the id 2 is still the next one.
C15_Witness ==
    /\ last.op = "define" /\ ~last.ok
    /\ last.ret = "ValueError"
    /\ DOMAIN schema.definitions_by_id = {1}
    /\ schema.next_definition_id = 2

(***************************************************************************)
(* An ArrayCodec on its own: a value_type, a byte order and a list of its  *)
(* values, then dumps, then loads of what dumps returned, at the offset    *)
(* that the bytes before it give.                                          *)
(***************************************************************************)

\* The longest list passed to ArrayCodec.dumps.
MaxItems == 2

\* The object the specification constructs.
TheArrayCodec == <<0, 1>>

\* Floats that a float32 holds exactly: 1.5, -2.0 and 0.15625.
Floats ==
    { [double |-> <<63, 248, 0, 0, 0, 0, 0, 0>>],
      [double |-> <<192, 0, 0, 0, 0, 0, 0, 0>>],
      [double |-> <<63, 196, 0, 0, 0, 0, 0, 0>>] }

\* Values of a scalar type tag.
ElementsOf(tag) ==
    CASE tag = "boolean" -> BOOLEAN
      [] tag \in {"float32", "float64"} -> Floats
      [] tag = "int8" -> {N(-128), N(127)}
      [] tag = "int16" -> {N(-2), N(258)}
      [] tag = "int32" -> {Num(-32768, 0), Num(1, 3)}
      [] tag = "uint8" -> {N(0), N(255)}
      [] tag = "uint16" -> {N(1), N(515)}
      [] tag = "uint32" -> {N(1), Num(Limb - 1, Limb - 1)}

ListsOf(tag) == UNION {[1..n -> ElementsOf(tag)] : n \in 0..MaxItems}

\* The tags that Field accepts as the value_type of an array.
ValueTypes == {tag \in DOMAIN _codecs : tag # "string"}

\* The bytes that precede the encoded array in the string passed to loads.
Prefixes == {<<>>, <<7>>}

InitArray ==
    /\ schema = Schema
    /\ sizes = [string |-> <<>>, array |-> (TheArrayCodec :> <<>>)]
    /\ defines = 0
    /\ threads = <<>>
    /\ \E value_type \in ValueTypes, little_endian \in BOOLEAN,
          before \in Prefixes :
          \E values \in ListsOf(value_type) :
             last = [op |-> "ArrayCodec", value_type |-> value_type,
                     little_endian |-> little_endian, values |-> values,
                     before |-> before, phase |-> "call"]

\* The ArrayCodec that Field constructs for the value_type.
ArrayCodecFor(value_type) ==
    Field("points", "array", value_type, TheArrayCodec).val.codec

ArrayDumps ==
    /\ last.op = "ArrayCodec" /\ last.phase = "call"
    /\ last' = [op |-> "ArrayCodec", value_type |-> last.value_type,
                little_endian |-> last.little_endian,
                values |-> last.values, before |-> last.before,
                phase |-> "dumped",
                out |-> ArrayCodec_dumps(ArrayCodecFor(last.value_type),
                                         last.values, last.little_endian)]
    /\ UNCHANGED <<schema, sizes, defines, threads>>

ArrayLoads ==
    /\ last.op = "ArrayCodec" /\ last.phase = "dumped" /\ last.out.ok
    /\ LET self == ArrayCodecFor(last.value_type)
           r == ArrayCodec_loads(self, SizeOf(sizes, self),
                                 last.before \o last.out.val,
                                 N(Len(last.before)), last.little_endian)
       IN  /\ sizes' = WithSize(sizes, self, r.size)
           /\ last' = [op |-> "ArrayCodec", value_type |-> last.value_type,
                       little_endian |-> last.little_endian,
                       values |-> last.values, before |-> last.before,
                       phase |-> "loaded", out |-> last.out,
                       back |-> [ok |-> r.ok, val |-> r.val]]
    /\ UNCHANGED <<schema, defines, threads>>

SpecArray == InitArray /\ [][ArrayDumps \/ ArrayLoads]_vars

\* The bytes one value of a scalar type tag takes.
ElementSize(tag) ==
    CASE tag \in {"boolean", "int8", "uint8"} -> 1
      [] tag \in {"int16", "uint16"} -> 2
      [] tag \in {"int32", "uint32", "float32"} -> 4
      [] tag = "float64" -> 8

\* C12: dumps of N values of element size E returns the 4 byte count N and
\* then N*E bytes, 4 zero bytes when N is 0; loads of these bytes returns
\* the N values and sets the size to 4 + N*E.
C12_ArrayFraming ==
    last.op = "ArrayCodec" /\ last.phase # "call" =>
        LET n == Len(last.values)
            e == ElementSize(last.value_type)
        IN  /\ last.out.ok
            /\ Len(last.out.val) = 4 + n * e
            /\ SubSeq(last.out.val, 1, 4)
                  = IF last.little_endian
                    THEN <<n, 0, 0, 0>> ELSE <<0, 0, 0, n>>
            /\ n = 0 => last.out.val = <<0, 0, 0, 0>>
            /\ last.phase = "loaded" =>
                  /\ last.back.ok
                  /\ last.back.val = last.values
                  /\ sizes.array[TheArrayCodec] = <<N(4 + n * e)>>

\* C12 witness: an empty list was encoded as 4 zero bytes and decoded from
\* them, at an offset, with the size set to 4.
C12_Witness ==
    /\ last.op = "ArrayCodec" /\ last.phase = "loaded"
    /\ last.values = <<>> /\ last.before # <<>>
    /\ last.out.val = <<0, 0, 0, 0>>
    /\ last.back.ok /\ last.back.val = <<>>
    /\ sizes.array[TheArrayCodec] = <<N(4)>>

(***************************************************************************)
(* A Definition on its own: a list of fields, a byte order and a dict,     *)
(* then dumps, then loads of what dumps returned, from the offset that     *)
(* the bytes before it give.                                               *)
(***************************************************************************)

\* Field lists that mix scalars, strings and arrays; in the first two
\* strings share the StringCodec, in the third two arrays have an ArrayCodec
\* each.
MixedFieldLists ==
    { <<Spec1("name", "string"), Spec1("title", "string"),
        Spec1("health", "int16")>>,
      <<Spec2("points", "array", "uint16"), Spec1("x", "uint8"),
        Spec1("name", "string")>>,
      <<Spec1("x", "uint8"), Spec2("points", "array", "float64"),
        Spec2("flags", "array", "boolean"), Spec1("y", "int32")>>,
      <<Spec1("x", "float64"), Spec1("on", "boolean"),
        Spec1("y", "float32")>> }

\* Texts, as code points: empty, 'h' and a 2 byte one, a 3 byte one.
Texts == {<<>>, <<104, 248>>, <<8364>>}

FieldValues(field) ==
    CASE field.type = "string" -> Texts
      [] field.type = "array" -> ListsOf(field.value_type)
      [] OTHER -> ElementsOf(field.type)

RECURSIVE DictsFrom(_, _)
DictsFrom(fields, i) ==
    IF i > Len(fields)
    THEN {<<>>}
    ELSE {(fields[i].key :> v) @@ r :
             v \in FieldValues(fields[i]), r \in DictsFrom(fields, i + 1)}

\* Definition([Field(**kwargs) for kwargs in fields],
\*            little_endian=little_endian)
DefinitionOf(fields, little_endian) ==
    Definition([i \in 1..Len(fields) |->
                   Field(fields[i].key, fields[i].type, fields[i].value_type,
                         <<0, i>>).val],
               0, "None", little_endian)

\* The bytes before the encoded dict in the string passed to loads.
Befores == {<<>>, <<7>>, <<7, 0, 0>>}

InitDefinition ==
    /\ schema = Schema
    /\ defines = 0
    /\ threads = <<>>
    /\ \E fields \in MixedFieldLists, little_endian \in BOOLEAN,
          before \in Befores :
          LET self == DefinitionOf(fields, little_endian)
          IN  /\ sizes = WithArrayCodecs(NoSizes, self)
              /\ \E data \in DictsFrom(self.fields, 1) :
                    last = [op |-> "Definition", self |-> self,
                            data |-> data, before |-> before,
                            phase |-> "call"]

DefinitionDumps ==
    /\ last.op = "Definition" /\ last.phase = "call"
    /\ last' = [op |-> "Definition", self |-> last.self, data |-> last.data,
                before |-> last.before, phase |-> "dumped",
                out |-> Definition_dumps(last.self, last.data)]
    /\ UNCHANGED <<schema, sizes, defines, threads>>

DefinitionLoads ==
    /\ last.op = "Definition" /\ last.phase = "dumped" /\ last.out.ok
    /\ LET r == Definition_loads(last.self, sizes,
                                 last.before \o last.out.val,
                                 N(Len(last.before)))
       IN  /\ sizes' = r.sizes
           /\ last' = [op |-> "Definition", self |-> last.self,
                       data |-> last.data, before |-> last.before,
                       phase |-> "loaded", out |-> last.out,
                       back |-> [ok |-> r.ok, val |-> r.val,
                                 offset |-> r.offset]]
    /\ UNCHANGED <<schema, defines, threads>>

SpecDefinition == InitDefinition /\ [][DefinitionDumps \/ DefinitionLoads]_vars

\* The bytes of the UTF-8 encoding of a text.
RECURSIVE Utf8Length(_)
Utf8Length(text) ==
    IF text = <<>>
    THEN 0
    ELSE (CASE Head(text) < 128 -> 1
            [] Head(text) >= 128 /\ Head(text) < 2048 -> 2
            [] Head(text) >= 2048 /\ Head(text) < 65536 -> 3
            [] OTHER -> 4)
         + Utf8Length(Tail(text))

\* The bytes that the encoding of a field's value occupies.
FieldBytes(field, value) ==
    CASE field.type = "string" -> 4 + Utf8Length(value)
      [] field.type = "array" -> 4 + Len(value) * ElementSize(field.value_type)
      [] OTHER -> ElementSize(field.type)

\* The bytes that the fields before field i occupy.
RECURSIVE BytesBefore(_, _, _)
BytesBefore(self, data, i) ==
    IF i = 1
    THEN 0
    ELSE BytesBefore(self, data, i - 1)
         + FieldBytes(self.fields[i - 1], data[self.fields[i - 1].key])

\* C11: dumps returns the fields' encodings one after the other in declared
\* order: the string is as long as the fields' encodings together, and each
\* field's codec decodes the field's value at the place after the fields
\* before it; loads from start_offset returns the dict that was dumped and
\* ends with its cursor at start_offset plus the length of the string.
C11_FieldsInOrder ==
    last.op = "Definition" /\ last.phase # "call" =>
        LET self == last.self
            count == Len(self.fields)
        IN  /\ last.out.ok
            /\ Len(last.out.val) = BytesBefore(self, last.data, count + 1)
            /\ \A i \in 1..count :
                  LET field == self.fields[i]
                      r == loads(field.codec, <<>>, last.out.val,
                                 N(BytesBefore(self, last.data, i)),
                                 self.little_endian)
                  IN  r.ok /\ r.val = last.data[field.key]
            /\ last.phase = "loaded" =>
                  /\ last.back.ok
                  /\ last.back.val = last.data
                  /\ last.back.offset
                        = N(Len(last.before) + Len(last.out.val))

\* C11 witness: a dict with two strings of different lengths, decoded by
\* the one StringCodec, came back from a string that starts at an offset.
C11_Witness ==
    /\ last.op = "Definition" /\ last.phase = "loaded"
    /\ last.before # <<>>
    /\ "title" \in DOMAIN last.data
    /\ Len(last.data["name"]) # Len(last.data["title"])
    /\ last.back.ok /\ last.back.val = last.data

(***************************************************************************)
(* Damaged input.  A Definition dumps a dict as before; loads is then      *)
(* given the string whole, cut short at its end, or with the length of a   *)
(* string or array field raised beyond what the string holds.              *)
(***************************************************************************)

\* The numbers of bytes cut off the end of a string of the given length.
Cuts(length) == {1, 2, 5, length} \cap (1..length)

\* The string fields and array fields of a Definition.
PrefixedFields(self) ==
    {i \in 1..Len(self.fields) : self.fields[i].type \in {"string", "array"}}

\* The bytes one item of a field's payload takes.
ItemSize(field) ==
    IF field.type = "array" THEN _codecs[field.value_type].size ELSE 1

\* string with the 4 bytes from place + 1 on replaced by the length.
WithLength(string, place, length, little_endian) ==
    SubSeq(string, 1, place) \o pack("I", little_endian, length).val
       \o SubSeq(string, place + 5, Len(string))

\* The lengths written over that of field i, whose prefix is at place + 1:
\* one item more than the string holds after the prefix, and the greatest.
RaisedLengths(string, place, field) ==
    {N((Len(string) - place - 4) \div ItemSize(field) + 1),
     Num(Limb - 1, Limb - 1)}

\* dumps has returned a string, and loads has not been called.
Dumped == last.op = "Definition" /\ last.phase = "dumped" /\ last.out.ok

LoadsDamaged(string, damage) ==
    /\ Dumped
    /\ LET r == Definition_loads(last.self, sizes, string,
                                 N(Len(last.before)))
       IN  /\ sizes' = r.sizes
           /\ last' = [op |-> "Definition", self |-> last.self,
                       data |-> last.data, before |-> last.before,
                       phase |-> "loaded", out |-> last.out,
                       string |-> string, damage |-> damage,
                       back |-> [ok |-> r.ok, val |-> r.val,
                                 offset |-> r.offset]]
    /\ UNCHANGED <<schema, defines, threads>>

LoadsWhole ==
    /\ Dumped
    /\ LoadsDamaged(last.before \o last.out.val, "none")

LoadsCut ==
    /\ Dumped
    /\ \E cut \in Cuts(Len(last.out.val)) :
          LoadsDamaged(last.before
                          \o SubSeq(last.out.val, 1, Len(last.out.val) - cut),
                       "cut")

LoadsRaised ==
    /\ Dumped
    /\ \E i \in PrefixedFields(last.self) :
          LET string == last.before \o last.out.val
              place == Len(last.before)
                          + BytesBefore(last.self, last.data, i)
          IN  \E length \in
                    RaisedLengths(string, place, last.self.fields[i]) :
                 LoadsDamaged(WithLength(string, place, length,
                                         last.self.little_endian),
                              "raised")

SpecDamaged ==
    InitDefinition
       /\ [][DefinitionDumps \/ LoadsWhole \/ LoadsCut \/ LoadsRaised]_vars

\* C13: loads of a string cut short, or of one in which a length claims
\* more than the string holds, raises struct.error and returns no dict; a
\* dict that loads returns has every field's bytes within the string.
C13_DamagedInputRaises ==
    last.op = "Definition" /\ last.phase = "loaded" =>
        /\ last.damage \in {"cut", "raised"} =>
              ~last.back.ok /\ last.back.val = "struct.error"
        /\ last.back.ok =>
              /\ DOMAIN last.back.val
                    = {last.self.fields[i].key :
                          i \in 1..Len(last.self.fields)}
              /\ Len(last.before)
                    + BytesBefore(last.self, last.back.val,
                                  Len(last.self.fields) + 1)
                       <= Len(last.string)

\* C13 witness: loads raised on a string whose array length was raised by
\* one item beyond the bytes that follow it.
C13_Witness ==
    /\ last.op = "Definition" /\ last.phase = "loaded"
    /\ last.damage = "raised"
    /\ Len(last.string) = Len(last.before) + Len(last.out.val)
    /\ "points" \in DOMAIN last.data
    /\ ~last.back.ok

(***************************************************************************)
(* Concurrent define.  Every thread calls Schema.define once on the same   *)
(* Schema; a thread may be preempted between any two of the statements of  *)
(* define, and between the read and the write of next_definition_id += 1.  *)
(* When the callers serialize their calls, a thread holds a lock of theirs *)
(* from its call to its return.                                            *)
(***************************************************************************)

\* The field lists the threads pass: two that define accepts and one with
\* a field that Field rejects.
ThreadFieldLists ==
    { <<Spec1("entity_id", "uint8")>>,
      <<Spec1("name", "string"), Spec1("health", "int16")>>,
      <<Spec1("entity_id", "uint8"), Spec1("", "int8")>> }

\* A thread about to call Schema.define(key, fields).
Defining(key, fields) ==
    [pc |-> "call", key |-> key, fields |-> fields, definition |-> "None",
     read |-> 0, ok |-> FALSE, ret |-> "None"]

NoThread == 0

InitDefines ==
    /\ schema = Schema
    /\ sizes = NoSizes
    /\ defines = 0
    /\ \E serialized \in BOOLEAN :
          last = [op |-> "defines", serialized |-> serialized,
                  holder |-> NoThread]
    /\ threads \in [Threads -> {Defining(key, fields) :
                                   key \in Keys, fields \in ThreadFieldLists}]

\* The callers' lock after thread t takes a step that ends in pc.
Held(t, pc) ==
    IF last.serialized
    THEN [last EXCEPT !.holder = IF pc = "done" THEN NoThread ELSE t]
    ELSE last

\* Thread t may run: the calls are not serialized, or no other thread is
\* inside define.
MayRun(t) == last.serialized => last.holder \in {NoThread, t}

\* definition = Definition([Field(**kwargs) for kwargs in fields],
\*                         self.next_definition_id, key)
DefineBuild(t) ==
    /\ threads[t].pc = "call" /\ MayRun(t)
    /\ LET r == Schema_define(schema, threads[t].key, threads[t].fields)
       IN  /\ threads' =
                 [threads EXCEPT ![t] =
                     IF r.ok
                     THEN [@ EXCEPT !.pc = "read", !.definition = r.val]
                     ELSE Returned(@, FALSE, r.err)]
           /\ last' = Held(t, IF r.ok THEN "read" ELSE "done")
    /\ UNCHANGED <<schema, sizes, defines>>

\* self.next_definition_id += 1: the read.
DefineRead(t) ==
    /\ threads[t].pc = "read" /\ MayRun(t)
    /\ threads' = [threads EXCEPT ![t] =
                      [@ EXCEPT !.pc = "write",
                                !.read = schema.next_definition_id]]
    /\ UNCHANGED <<schema, sizes, defines, last>>

\* self.next_definition_id += 1: the write.
DefineWrite(t) ==
    /\ threads[t].pc = "write" /\ MayRun(t)
    /\ schema' = [schema EXCEPT !.next_definition_id = threads[t].read + 1]
    /\ threads' = [threads EXCEPT ![t] = [@ EXCEPT !.pc = "by_key"]]
    /\ UNCHANGED <<sizes, defines, last>>

\* self.definitions[key] = definition
DefineByKey(t) ==
    /\ threads[t].pc = "by_key" /\ MayRun(t)
    /\ schema' = [schema EXCEPT
                     !.definitions =
                        (threads[t].key :> threads[t].definition) @@ @]
    /\ threads' = [threads EXCEPT ![t] = [@ EXCEPT !.pc = "by_id"]]
    /\ UNCHANGED <<sizes, defines, last>>

\* self.definitions_by_id[definition.id] = definition; return definition
DefineById(t) ==
    /\ threads[t].pc = "by_id" /\ MayRun(t)
    /\ schema' = [schema EXCEPT
                     !.definitions_by_id =
                        (threads[t].definition.id :> threads[t].definition)
                           @@ @]
    /\ threads' = [threads EXCEPT ![t] =
                      Returned(@, TRUE, threads[t].definition)]
    /\ defines' = defines + 1
    /\ last' = Held(t, "done")
    /\ UNCHANGED sizes

NextDefines ==
    \E t \in Threads :
       \/ DefineBuild(t)
       \/ DefineRead(t)
       \/ DefineWrite(t)
       \/ DefineByKey(t)
       \/ DefineById(t)

SpecDefines == InitDefines /\ [][NextDefines]_vars

\* The threads whose define call has returned a Definition.
Completed == {t \in Threads : threads[t].pc = "done" /\ threads[t].ok}

\* Two Definitions that define returned carry the same id.
SameIdTwice ==
    \E t, u \in Completed : t # u /\ threads[t].ret.id = threads[u].ret.id

\* next_definition_id has advanced by less than the define calls that
\* returned a Definition.
LostIncrement == schema.next_definition_id - 1 < Cardinality(Completed)

\* C14: when the define calls on a Schema are serialized, no two returned
\* Definitions carry the same id and next_definition_id has advanced by the
\* number of calls that returned one; without that, see the witness.
C14_SerializedDefineSafe ==
    last.op = "defines" /\ last.serialized =>
        /\ ~SameIdTwice
        /\ ~LostIncrement
        /\ (\A t \in Threads : threads[t].pc \in {"call", "done"}) =>
              /\ schema.next_definition_id = defines + 1
              /\ DOMAIN schema.definitions_by_id = 1..defines

\* C14 witness: the calls were not serialized, two threads' define calls
\* interleaved, both returned a Definition with the id 1, and
\* next_definition_id has advanced by one only.
C14_Witness ==
    /\ last.op = "defines" /\ ~last.serialized
    /\ \A t \in Threads : threads[t].pc = "done"
    /\ SameIdTwice
    /\ LostIncrement

====
